---- MODULE Spec2Model ----
(***************************************************************************)
(* Model of the /search-books request handler of src/app.py: one request   *)
(* is validated, moderated, turned into a structured query by the text     *)
(* generation service (with one retry), searched in Open Library and       *)
(* narrated back as a stream.                                              *)
(*                                                                         *)
(* Python values are records [kind, val].  A Python string is a sequence   *)
(* of tokens (words and blanks); a dict is a function from key names to    *)
(* values; a list is a sequence of values.                                 *)
(***************************************************************************)
EXTENDS Integers, Sequences, FiniteSets, TLC

(* ------------------------------ bounds -------------------------------- *)
NumRequests == 2
MaxLines == 2
MaxDocs == 4

Reqs == 1..NumRequests

(* --------------------------- Python values ---------------------------- *)
PyNone == [kind |-> "none", val |-> 0]
PyNum(n) == [kind |-> "num", val |-> n]
Str(s) == [kind |-> "str", val |-> s]
PyList(l) == [kind |-> "list", val |-> l]
PyDict(d) == [kind |-> "dict", val |-> d]
PyBool(b) == [kind |-> "bool", val |-> b]
Malformed == [kind |-> "malformed", val |-> 0]

W(w) == Str(<<w>>)
EmptyDict == [k \in {} |-> PyNone]
Range(s) == {s[i] : i \in DOMAIN s}

\* bool(v): None, 0 and empty containers are falsy
Truthy(v) ==
  CASE v.kind = "none" -> FALSE
    [] v.kind = "num" -> v.val # 0
    [] v.kind = "str" -> v.val # <<>>
    [] v.kind = "list" -> v.val # <<>>
    [] v.kind = "dict" -> DOMAIN v.val # {}
    [] OTHER -> TRUE

\* does `key in v` evaluate (TRUE) or raise TypeError (FALSE)
SupportsIn(v) == v.kind \in {"dict", "list", "str"}

\* `key in v` for a one-word string key: dict key, list element, substring
PyIn(key, v) ==
  CASE v.kind = "dict" -> key \in DOMAIN v.val
    [] v.kind = "list" -> \E i \in DOMAIN v.val :
                             v.val[i].kind = "str" /\ v.val[i].val = <<key>>
    [] v.kind = "str" -> key \in Range(v.val)
    [] OTHER -> FALSE

\* dict.get(key, default)
Get(d, key, default) == IF key \in DOMAIN d.val THEN d.val[key] ELSE default

IsBlank(tok) == tok = " "

RECURSIVE lstrip(_)
lstrip(s) == IF s # <<>> /\ IsBlank(Head(s)) THEN lstrip(Tail(s)) ELSE s

RECURSIVE rstrip(_)
rstrip(s) ==
  IF s # <<>> /\ IsBlank(s[Len(s)]) THEN rstrip(SubSeq(s, 1, Len(s) - 1)) ELSE s

\* str.strip()
strip(s) == rstrip(lstrip(s))

\* isinstance(v, dict) and "error" in v
IsErrorDict(v) == v.kind = "dict" /\ "error" \in DOMAIN v.val

(* ----------------------------- responses ------------------------------ *)
NoResponse == [status |-> 0, content_type |-> "", json |-> PyNone, chunks |-> <<>>]

\* jsonify(obj), status
JsonResponse(obj, code) ==
  [status |-> code, content_type |-> "application/json", json |-> obj, chunks |-> <<>>]

InvalidInputMsg == <<"Invalid input. 'query' must be a non-empty string.">>
UnexpectedMsg == <<"An unexpected error occurred.">>
ModerationNotice ==
  <<"The Book Search service is moderated, and does now allow for profanity">>

ErrorBody(msg) == PyDict("error" :> Str(msg))

InvalidInput == JsonResponse(ErrorBody(InvalidInputMsg), 400)
Unexpected == JsonResponse(ErrorBody(UnexpectedMsg), 500)

(* ------------------------------- inputs ------------------------------- *)
QueryValues ==
  { PyNone, PyNum(5), PyList(<<>>), Str(<<>>), Str(<<" ">>), Str(<<" ", " ">>),
    Str(<<" ", "dune", " ">>), Str(<<"dune", " ", "saga">>) }

Bodies ==
  { Malformed, PyNone, PyNum(0), PyNum(5), Str(<<>>), Str(<<"dune">>),
    Str(<<"my", " ", "query">>), PyList(<<>>), PyList(<<PyNum(1)>>),
    PyList(<<W("query")>>), PyDict(EmptyDict),
    PyDict("wrong_key" :> W("hello")) }
  \cup { PyDict("query" :> v) : v \in QueryValues }

\* outcome of one outbound HTTP exchange: a failure with its cause, or a value
Fail(cause) == [ok |-> FALSE, cause |-> cause, val |-> PyNone]
Ok(v) == [ok |-> TRUE, cause |-> "", val |-> v]

Causes == {"Connection refused", "500 Server Error"}

\* structures the text model may produce (after eval): dicts over the keys
\* query_type, query_value, limit, error; lists; a bare number
ConfigKeys == {"query_type", "query_value", "limit", "error"}

ConfigChoices ==
  [ query_type : {PyNone, W("author")},
    query_value : {PyNone, W("dune")},
    limit : {PyNone, W("5")},
    error : {PyNone, W("oops")} ]

\* PyNone marks an absent key
ConfigDicts ==
  { PyDict([k \in {x \in ConfigKeys : f[x] # PyNone} |-> f[k]]) : f \in ConfigChoices }

GenValues ==
  ConfigDicts
  \cup { PyList(<<>>), PyList(<<W("query_type"), W("query_value")>>), PyNum(7) }

GenOutcomes == {Fail(c) : c \in Causes} \cup {Ok(v) : v \in GenValues}

\* documents of a search result: the i-th is a full record or a partial one
Book(i) ==
  PyDict("title" :> Str(<<"Title ", ToString(i)>>)
         @@ "author_name" :> PyList(<<Str(<<"Author ", ToString(i)>>), W("Coauthor")>>))

BareBook == PyDict(EmptyDict)

\* a record lacking 'title' (i = 1, 4, ...), lacking 'author_name'
\* (i = 2, 5, ...) or lacking both (i = 3, 6, ...)
PartialBook(i) ==
  CASE i % 3 = 1 -> PyDict("author_name" :> PyList(<<Str(<<"Author ", ToString(i)>>)>>))
    [] i % 3 = 2 -> PyDict("title" :> Str(<<"Title ", ToString(i)>>))
    [] OTHER -> BareBook

DocLists == UNION { {d \in [1..n -> {Book(i) : i \in 1..n} \cup {PartialBook(i) : i \in 1..n}] :
                       \A i \in 1..n : d[i] \in {Book(i), PartialBook(i)}} : n \in 0..MaxDocs }

BooksValues ==
  { PyDict("docs" :> PyList(d)) : d \in DocLists }
  \cup { PyDict(EmptyDict), PyDict("error" :> W("rate limited")), PyList(<<>>) }

SearchOutcomes == {Fail(c) : c \in Causes} \cup {Ok(v) : v \in BooksValues}

RefineOutcomes == {Fail(c) : c \in Causes} \cup {Ok(PyNone)}

\* lines of the upstream stream, as bytes; 255 never occurs in valid UTF-8
Lines == { <<>>, <<104, 105>>, <<98>>, <<255>> }

(* ------------------------------- state -------------------------------- *)
VARIABLES pc, data, user_query, query_config, books_data, calls, response,
          upstream, exc

vars == <<pc, data, user_query, query_config, books_data, calls, response,
          upstream, exc>>

Init ==
  /\ pc = [r \in Reqs |-> "idle"]
  /\ data = [r \in Reqs |-> PyNone]
  /\ user_query = [r \in Reqs |-> <<>>]
  /\ query_config = [r \in Reqs |-> PyNone]
  /\ books_data = [r \in Reqs |-> PyNone]
  /\ calls = [r \in Reqs |-> <<>>]
  /\ response = [r \in Reqs |-> NoResponse]
  /\ upstream = [r \in Reqs |-> <<>>]
  /\ exc = [r \in Reqs |-> ""]

\* end the request with a complete (non-streamed) response
Return(r, resp) ==
  /\ pc' = [pc EXCEPT ![r] = "done"]
  /\ response' = [response EXCEPT ![r] = resp]
  /\ UNCHANGED exc

\* mutant: the except clause puts str(e) into the body
Raise_Leaky(r, e) ==
  /\ pc' = [pc EXCEPT ![r] = "done"]
  /\ response' = [response EXCEPT ![r] = JsonResponse(ErrorBody(<<e>>), 500)]
  /\ exc' = [exc EXCEPT ![r] = e]

\* lines 51-52: an exception e (exc[r] keeps its text) reaches the handler's
\* except clause, which answers with the generic body
Raise(r, e) ==
  /\ pc' = [pc EXCEPT ![r] = "done"]
  /\ response' = [response EXCEPT ![r] = Unexpected]
  /\ exc' = [exc EXCEPT ![r] = e]

\* the text of the exception that line 16 or line 18 raises on body d
InputException(d) ==
  CASE d.kind = "malformed" -> "400 Bad Request: Failed to decode JSON object"
    [] d.kind = "num" -> "argument of type 'int' is not iterable"
    [] d.kind = "list" -> "list indices must be integers or slices, not str"
    [] OTHER -> "string indices must be integers"

\* line 18: "invalid" (-> 400), "raise" (TypeError -> except) or "ok"
CheckInput(d) ==
  IF d.kind = "malformed" THEN "raise"
  ELSE IF ~Truthy(d) THEN "invalid"
  ELSE IF ~SupportsIn(d) THEN "raise"
  ELSE IF ~PyIn("query", d) THEN "invalid"
  ELSE IF d.kind # "dict" THEN "raise"
  ELSE IF d.val["query"].kind # "str" THEN "invalid"
  ELSE IF strip(d.val["query"].val) = <<>> THEN "invalid"
  ELSE "ok"

\* search_books, lines 16-21
Receive(r, body) ==
  /\ pc[r] = "idle"
  /\ data' = [data EXCEPT ![r] = body]
  /\ LET verdict == CheckInput(body) IN
       CASE verdict = "invalid" ->
              /\ Return(r, InvalidInput)
              /\ UNCHANGED user_query
         [] verdict = "raise" ->
              /\ Raise(r, InputException(body))
              /\ UNCHANGED user_query
         [] OTHER ->
              /\ user_query' = [user_query EXCEPT ![r] = strip(body.val["query"].val)]
              /\ pc' = [pc EXCEPT ![r] = "moderate"]
              /\ UNCHANGED <<response, exc>>
  /\ UNCHANGED <<query_config, books_data, calls, upstream>>

\* respond_with_profanity_message, lines 55-60
respond_with_profanity_message ==
  [ status |-> 200, content_type |-> "application/json", json |-> PyNone,
    chunks |-> << <<"{\"response\": \"">> \o ModerationNotice \o <<"\"}", "\n">> >> ]

\* mutant: a flagged query is not short-circuited
Moderate_Continues(r, flagged) ==
  /\ pc[r] = "moderate"
  /\ calls' = [calls EXCEPT ![r] = Append(@, [svc |-> "moderation", arg |-> user_query[r], outcome |-> Ok(PyBool(flagged))])]
  /\ pc' = [pc EXCEPT ![r] = "generate"]
  /\ UNCHANGED <<data, user_query, query_config, books_data, upstream, response, exc>>

\* search_books, lines 23-24: profanity.contains_profanity(user_query).
\* Every outbound call is logged in calls[r] with its argument and outcome.
Moderate(r, flagged) ==
  /\ pc[r] = "moderate"
  /\ calls' = [calls EXCEPT ![r] = Append(@, [svc |-> "moderation", arg |-> user_query[r], outcome |-> Ok(PyBool(flagged))])]
  /\ IF flagged
       THEN Return(r, respond_with_profanity_message)
       ELSE /\ pc' = [pc EXCEPT ![r] = "generate"]
            /\ UNCHANGED <<response, exc>>
  /\ UNCHANGED <<data, user_query, query_config, books_data, upstream>>

GenerationPrefix == "Ollama generation failed: "
SearchPrefix == "Open Library API failed: "
RefinementPrefix == "Refinement failed: "

\* mutant: the except clause forgets the stage prefix
generate_query_with_ollama_NoPrefix(outcome) ==
  IF outcome.ok THEN outcome.val ELSE ErrorBody(<<outcome.cause>>)

\* generate_query_with_ollama, lines 62-87: the evaluated reply, or the
\* error-tagged dict built by the except clause
generate_query_with_ollama(outcome) ==
  IF outcome.ok THEN outcome.val ELSE ErrorBody(<<GenerationPrefix, outcome.cause>>)

RequiredKeys == {"query_type", "query_value"}

\* mutant: one required key is enough
validate_query_config_Any(qc) == \E key \in RequiredKeys : PyIn(key, qc)

\* mutant: limit is required too
validate_query_config_AlsoLimit(qc) ==
  \A key \in RequiredKeys \cup {"limit"} : PyIn(key, qc)

\* validate_query_config, lines 90-93
validate_query_config(qc) == \A key \in RequiredKeys : PyIn(key, qc)

GenerateCall(r, outcome) == [svc |-> "generate", arg |-> user_query[r], outcome |-> outcome]

\* search_books, lines 27-32: first generation call, error check, validation
Generate(r, outcome) ==
  /\ pc[r] = "generate"
  /\ calls' = [calls EXCEPT ![r] = Append(@, GenerateCall(r, outcome))]
  /\ LET qc == generate_query_with_ollama(outcome) IN
       /\ query_config' = [query_config EXCEPT ![r] = qc]
       /\ IF IsErrorDict(qc) THEN Return(r, JsonResponse(qc, 500))
          ELSE IF ~SupportsIn(qc) THEN Raise(r, "argument of type 'int' is not iterable")
          ELSE /\ pc' = [pc EXCEPT ![r] =
                          IF validate_query_config(qc) THEN "search" ELSE "retry"]
               /\ UNCHANGED <<response, exc>>
  /\ UNCHANGED <<data, user_query, books_data, upstream>>

\* the module defines no name `logger` (lines 1-10)
LoggerDefined == FALSE

\* mutant: the retried structure is not assigned to query_config
Retry_KeepsFirst(r, outcome) ==
  /\ pc[r] = "retry"
  /\ calls' = [calls EXCEPT ![r] = Append(@, GenerateCall(r, outcome))]
  /\ LET qc == generate_query_with_ollama(outcome) IN
       IF IsErrorDict(qc)
         THEN IF LoggerDefined THEN Return(r, JsonResponse(qc, 500))
                               ELSE Raise(r, "name 'logger' is not defined")
         ELSE /\ pc' = [pc EXCEPT ![r] = "search"]
              /\ UNCHANGED <<response, exc>>
  /\ UNCHANGED <<data, user_query, query_config, books_data, upstream>>

\* mutant: a retried result that still lacks a key is regenerated once more
Retry_Again(r, outcome) ==
  /\ pc[r] = "retry"
  /\ LET qc == generate_query_with_ollama(outcome)
         again == ~IsErrorDict(qc) /\ SupportsIn(qc) /\ ~validate_query_config(qc)
     IN /\ calls' = [calls EXCEPT ![r] =
                       IF again THEN Append(Append(@, GenerateCall(r, outcome)),
                                            GenerateCall(r, outcome))
                                ELSE Append(@, GenerateCall(r, outcome))]
        /\ query_config' = [query_config EXCEPT ![r] = qc]
        /\ IF IsErrorDict(qc)
             THEN IF LoggerDefined THEN Return(r, JsonResponse(qc, 500))
                                   ELSE Raise(r, "name 'logger' is not defined")
             ELSE /\ pc' = [pc EXCEPT ![r] = "search"]
                  /\ UNCHANGED <<response, exc>>
  /\ UNCHANGED <<data, user_query, books_data, upstream>>

\* mutant: query_config is a module-level global shared by all requests
Retry_SharedConfig(r, outcome) ==
  /\ pc[r] = "retry"
  /\ calls' = [calls EXCEPT ![r] = Append(@, GenerateCall(r, outcome))]
  /\ LET qc == generate_query_with_ollama(outcome) IN
       /\ query_config' = [q \in Reqs |-> qc]
       /\ IF IsErrorDict(qc)
            THEN IF LoggerDefined THEN Return(r, JsonResponse(qc, 500))
                                  ELSE Raise(r, "name 'logger' is not defined")
            ELSE /\ pc' = [pc EXCEPT ![r] = "search"]
                 /\ UNCHANGED <<response, exc>>
  /\ UNCHANGED <<data, user_query, books_data, upstream>>

\* search_books, lines 33-36: the retry; logging the retry error raises
\* NameError, which the handler's except clause (lines 51-52) answers
Retry(r, outcome) ==
  /\ pc[r] = "retry"
  /\ calls' = [calls EXCEPT ![r] = Append(@, GenerateCall(r, outcome))]
  /\ LET qc == generate_query_with_ollama(outcome) IN
       /\ query_config' = [query_config EXCEPT ![r] = qc]
       /\ IF IsErrorDict(qc)
            THEN IF LoggerDefined THEN Return(r, JsonResponse(qc, 500))
                                  ELSE Raise(r, "name 'logger' is not defined")
            ELSE /\ pc' = [pc EXCEPT ![r] = "search"]
                 /\ UNCHANGED <<response, exc>>
  /\ UNCHANGED <<data, user_query, books_data, upstream>>

\* type(v).__name__ as it appears in an AttributeError message
TypeName(v) ==
  CASE v.kind = "list" -> "list" [] v.kind = "num" -> "int"
    [] v.kind = "str" -> "str" [] v.kind = "none" -> "NoneType" [] OTHER -> v.kind

NoGetMsg(v) == "'" \o TypeName(v) \o "' object has no attribute 'get'"

\* search_books_with_openlibrary, lines 99-102: the params dict literal
\* {query_type: query_value, limit: limit}; a later equal key overrides
SearchParams(qc) ==
  LET query_type == Get(qc, "query_type", W("q"))
      query_value == Get(qc, "query_value", Str(<<>>))
      limit == Get(qc, "limit", W("3"))
  IN [k \in {query_type, limit} |-> IF k = limit THEN limit ELSE query_value]

\* mutant: a failed search is swallowed as an empty result
search_books_with_openlibrary_Swallow(qc, outcome) ==
  IF qc.kind # "dict" THEN ErrorBody(<<SearchPrefix, NoGetMsg(qc)>>)
  ELSE IF outcome.ok THEN outcome.val
  ELSE PyDict("docs" :> PyList(<<>>))

\* search_books_with_openlibrary, lines 96-107
search_books_with_openlibrary(qc, outcome) ==
  IF qc.kind # "dict" THEN ErrorBody(<<SearchPrefix, NoGetMsg(qc)>>)
  ELSE IF outcome.ok THEN outcome.val
  ELSE ErrorBody(<<SearchPrefix, outcome.cause>>)

\* mutant: the handler does not test the search result for an error
Search_NoErrorCheck(r, outcome) ==
  /\ pc[r] = "search"
  /\ calls' = [calls EXCEPT ![r] =
                 IF query_config[r].kind = "dict"
                   THEN Append(@, [svc |-> "search", arg |-> SearchParams(query_config[r]),
                                   outcome |-> outcome])
                   ELSE @]
  /\ books_data' = [books_data EXCEPT ![r] =
                      search_books_with_openlibrary(query_config[r], outcome)]
  /\ pc' = [pc EXCEPT ![r] = "refine"]
  /\ UNCHANGED <<data, user_query, query_config, upstream, response, exc>>

\* search_books, lines 39-41
Search(r, outcome) ==
  /\ pc[r] = "search"
  /\ calls' = [calls EXCEPT ![r] =
                 IF query_config[r].kind = "dict"
                   THEN Append(@, [svc |-> "search", arg |-> SearchParams(query_config[r]),
                                   outcome |-> outcome])
                   ELSE @]
  /\ LET books == search_books_with_openlibrary(query_config[r], outcome) IN
       /\ books_data' = [books_data EXCEPT ![r] = books]
       /\ IF IsErrorDict(books) THEN Return(r, JsonResponse(books, 500))
          ELSE /\ pc' = [pc EXCEPT ![r] = "refine"]
               /\ UNCHANGED <<response, exc>>
  /\ UNCHANGED <<data, user_query, query_config, upstream>>

Min(a, b) == IF a < b THEN a ELSE b

\* sep.join(parts) for parts a sequence of strings
RECURSIVE Join(_, _)
Join(parts, sep) ==
  IF parts = <<>> THEN <<>>
  ELSE IF Len(parts) = 1 THEN parts[1]
  ELSE parts[1] \o <<sep>> \o Join(Tail(parts), sep)

\* line 116: one bullet of the prompt (the bullet sign U+2022 written as *)
Bullet(book) ==
  LET title == Get(book, "title", W("Unknown Title")).val
      authors == Get(book, "author_name", PyList(<<W("Unknown Author")>>)).val
  IN <<"* '">> \o title \o <<"' by ">>
       \o Join([i \in DOMAIN authors |-> authors[i].val], ", ")

\* mutant: the slice takes one document too many
book_details_FirstFour(books) ==
  LET docs == Get(books, "docs", PyList(<<>>)).val
      first == SubSeq(docs, 1, Min(4, Len(docs)))
  IN Join([i \in DOMAIN first |-> Bullet(first[i])], "\n")

\* lines 114-119: bullets of books.get("docs", [])[:3], joined by newlines
book_details(books) ==
  LET docs == Get(books, "docs", PyList(<<>>)).val
      first == SubSeq(docs, 1, Min(3, Len(docs)))
  IN Join([i \in DOMAIN first |-> Bullet(first[i])], "\n")

\* lines 120-127
RefinePayload(uq, books) ==
  [ model |-> "llama3.2",
    prompt |-> <<"The user asked: '">> \o uq
                 \o <<"'. Based on the following books:\n">> \o book_details(books)
                 \o <<"\n", "Write an engaging intro, include the book details as bullets, and a happy outro. Use plain text.">>,
    stream |-> TRUE ]

\* Response(stream_chunks(), content_type="text/plain"), line 139
StreamResponse ==
  [status |-> 200, content_type |-> "text/plain", json |-> PyNone, chunks |-> <<>>]

\* the (body, status) pair of line 142
ErrorPair(cause) ==
  [kind |-> "tuple", val |-> <<JsonResponse(ErrorBody(<<RefinementPrefix, cause>>), 200), 500>>]

\* refine_response_with_ollama, lines 110-142: a streaming Response, or the
\* pair built by the except clause
refine_response_with_ollama(uq, books, outcome) ==
  IF books.kind # "dict" THEN ErrorPair(NoGetMsg(books))
  ELSE IF ~outcome.ok THEN ErrorPair(outcome.cause)
  ELSE [kind |-> "Response", val |-> StreamResponse]

\* mutant: the status of a (body, status) pair is ignored
make_response_DropsStatus(rv) ==
  IF rv.kind = "tuple" THEN rv.val[1] ELSE rv.val

\* what the framework makes of the view's return value (line 49): a
\* (body, status) pair is the body with that status
make_response(rv) ==
  IF rv.kind = "tuple" THEN [rv.val[1] EXCEPT !.status = rv.val[2]] ELSE rv.val

\* search_books, lines 45-49
Refine(r, outcome) ==
  /\ pc[r] = "refine"
  /\ calls' = [calls EXCEPT ![r] =
                 IF books_data[r].kind = "dict"
                   THEN Append(@, [svc |-> "refine",
                                   arg |-> RefinePayload(user_query[r], books_data[r]),
                                   outcome |-> outcome])
                   ELSE @]
  /\ LET refined_response ==
           refine_response_with_ollama(user_query[r], books_data[r], outcome) IN
       IF IsErrorDict(refined_response)
         THEN Return(r, JsonResponse(refined_response, 500))
       ELSE IF refined_response.kind = "Response"
         THEN /\ pc' = [pc EXCEPT ![r] = "streaming"]
              /\ response' = [response EXCEPT ![r] = make_response(refined_response)]
              /\ UNCHANGED exc
       ELSE Return(r, make_response(refined_response))
  /\ UNCHANGED <<data, user_query, query_config, books_data, upstream>>

\* bytes.decode("utf-8"): defined when every byte is valid
ValidUtf8(bs) == \A i \in DOMAIN bs : bs[i] < 128

Chr(b) == CASE b = 98 -> "b" [] b = 104 -> "h" [] b = 105 -> "i" [] OTHER -> "?"

decode(bs) == [i \in DOMAIN bs |-> Chr(bs[i])]

\* mutant: the `if chunk:` filter is missing
StreamLine_NoFilter(r, chunk) ==
  /\ pc[r] = "streaming"
  /\ Len(upstream[r]) < MaxLines
  /\ upstream' = [upstream EXCEPT ![r] = Append(@, chunk)]
  /\ IF ~ValidUtf8(chunk)
       THEN /\ pc' = [pc EXCEPT ![r] = "aborted"]
            /\ UNCHANGED response
     ELSE /\ response' = [response EXCEPT ![r].chunks = Append(@, decode(chunk) \o <<"\n">>)]
          /\ UNCHANGED pc
  /\ UNCHANGED <<data, user_query, query_config, books_data, calls, exc>>

\* stream_chunks, lines 133-137: one iteration of the loop over iter_lines()
StreamLine(r, chunk) ==
  /\ pc[r] = "streaming"
  /\ Len(upstream[r]) < MaxLines
  /\ upstream' = [upstream EXCEPT ![r] = Append(@, chunk)]
  /\ IF chunk = <<>>
       THEN UNCHANGED <<pc, response>>
     ELSE IF ~ValidUtf8(chunk)
       THEN /\ pc' = [pc EXCEPT ![r] = "aborted"]
            /\ UNCHANGED response
     ELSE /\ response' = [response EXCEPT ![r].chunks = Append(@, decode(chunk) \o <<"\n">>)]
          /\ UNCHANGED pc
  /\ UNCHANGED <<data, user_query, query_config, books_data, calls, exc>>

\* iter_lines() is exhausted: the generator returns and the body is complete
StreamEnd(r) ==
  /\ pc[r] = "streaming"
  /\ pc' = [pc EXCEPT ![r] = "done"]
  /\ UNCHANGED <<data, user_query, query_config, books_data, calls, response, upstream, exc>>

\* mutant: a broken stream is translated into an error response
StreamFail_Reports(r) ==
  /\ pc[r] = "streaming"
  /\ pc' = [pc EXCEPT ![r] = "aborted"]
  /\ response' = [response EXCEPT ![r] =
                    JsonResponse(ErrorBody(<<RefinementPrefix, "Connection broken">>), 500)]
  /\ UNCHANGED <<data, user_query, query_config, books_data, calls, upstream, exc>>

\* iter_lines() raises (the upstream connection breaks): the generator dies
StreamFail(r) ==
  /\ pc[r] = "streaming"
  /\ pc' = [pc EXCEPT ![r] = "aborted"]
  /\ UNCHANGED <<data, user_query, query_config, books_data, calls, response, upstream, exc>>

Next ==
  \E r \in {1} :
    \/ \E body \in Bodies : Receive(r, body)
    \/ \E flagged \in BOOLEAN : Moderate(r, flagged)
    \/ \E outcome \in GenOutcomes : Generate(r, outcome)
    \/ \E outcome \in GenOutcomes : Retry(r, outcome)
    \/ \E outcome \in SearchOutcomes : Search(r, outcome)
    \/ \E outcome \in RefineOutcomes : Refine(r, outcome)
    \/ \E chunk \in Lines : StreamLine(r, chunk)
    \/ StreamEnd(r)
    \/ StreamFail(r)

Spec == Init /\ [][Next]_vars

(* ------------------------- claims: vocabulary ------------------------- *)
CallsOf(r, svc) == SelectSeq(calls[r], LAMBDA c : c.svc = svc)
NumCalls(r, svc) == Len(CallsOf(r, svc))
FirstGen(r) == CallsOf(r, "generate")[1]
SecondGen(r) == CallsOf(r, "generate")[2]
SearchCall(r) == CallsOf(r, "search")[1]
RefineCall(r) == CallsOf(r, "refine")[1]

\* the response is a JSON error body whose message is the prefix, then the cause
ErrorIs(resp, prefix, cause) ==
  /\ resp.content_type = "application/json"
  /\ resp.json = PyDict("error" :> Str(<<prefix, cause>>))

\* the body is JSON whose 'query' is missing, not a string, or blank
QueryMissing(d) ==
  /\ d.kind # "malformed"
  /\ \/ d.kind # "dict"
     \/ "query" \notin DOMAIN d.val
     \/ d.val["query"].kind # "str"
     \/ \A i \in DOMAIN d.val["query"].val : d.val["query"].val[i] = " "

\* a JSON structure (object or array) without an 'error' key that lacks
\* query_type or query_value
NonErrorLacking(v) ==
  /\ v.kind \in {"dict", "list"}
  /\ ~(v.kind = "dict" /\ "error" \in DOMAIN v.val)
  /\ ~(PyIn("query_type", v) /\ PyIn("query_value", v))

\* C1: a body whose 'query' is missing, blank or not a string, whatever the
\* JSON shape of the body, is answered 400 with the invalid-input message and
\* without any collaborator call.
C1_InvalidInputIs400 ==
  \A r \in Reqs :
    (pc[r] # "idle" /\ QueryMissing(data[r]))
      => /\ pc[r] = "done"
         /\ response[r] = InvalidInput
         /\ calls[r] = <<>>

Flagged(r) ==
  \E i \in DOMAIN calls[r] :
    calls[r][i].svc = "moderation" /\ calls[r][i].outcome.val.val

\* C2: a flagged query is answered 200 with exactly one chunk, the moderation
\* notice, and neither generation nor search (nor refinement) is invoked.
C2_ModerationShortCircuit ==
  \A r \in Reqs :
    Flagged(r)
      => /\ pc[r] = "done"
         /\ response[r].status = 200
         /\ Len(response[r].chunks) = 1
         /\ ModerationNotice[1] \in Range(response[r].chunks[1])
         /\ response[r].json = PyNone
         /\ NumCalls(r, "generate") = 0
         /\ NumCalls(r, "search") = 0
         /\ NumCalls(r, "refine") = 0

C2_Witness == \E r \in Reqs : Flagged(r) /\ pc[r] = "done"

FirstGenFailed(r) == NumCalls(r, "generate") >= 1 /\ ~FirstGen(r).outcome.ok

\* C3: a failed first generation call ends the request with 500 and the
\* message 'Ollama generation failed: <cause>'; no retry, search or refinement.
C3_FirstGenerationFailure ==
  \A r \in Reqs :
    FirstGenFailed(r)
      => /\ pc[r] = "done"
         /\ response[r].status = 500
         /\ ErrorIs(response[r], GenerationPrefix, FirstGen(r).outcome.cause)
         /\ NumCalls(r, "generate") = 1
         /\ NumCalls(r, "search") = 0
         /\ NumCalls(r, "refine") = 0

C3_Witness == \E r \in Reqs : FirstGenFailed(r) /\ pc[r] = "done"

RetryFailed(r) ==
  /\ NumCalls(r, "generate") = 2
  /\ FirstGen(r).outcome.ok
  /\ NonErrorLacking(FirstGen(r).outcome.val)
  /\ ~SecondGen(r).outcome.ok

\* C4: when the first result lacks a required key and the retry fails, the
\* request ends with 500 and 'Ollama generation failed: <cause>', not the
\* generic unexpected-error message, and no search call is made.
C4_RetryFailureIsGenerationFailed ==
  \A r \in Reqs :
    RetryFailed(r)
      => /\ pc[r] = "done"
         /\ response[r].status = 500
         /\ ErrorIs(response[r], GenerationPrefix, SecondGen(r).outcome.cause)
         /\ response[r] # Unexpected
         /\ NumCalls(r, "search") = 0

RetrySucceeded(r) ==
  /\ NumCalls(r, "generate") = 2
  /\ FirstGen(r).outcome.ok
  /\ NonErrorLacking(FirstGen(r).outcome.val)
  /\ SecondGen(r).outcome.ok
  /\ SecondGen(r).outcome.val.kind = "dict"
  /\ {"query_type", "query_value"} \subseteq DOMAIN SecondGen(r).outcome.val.val
  /\ "error" \notin DOMAIN SecondGen(r).outcome.val.val

\* C5: after a first result lacking a required key and a retried non-error
\* result with both keys, the one search call carries the retried structure's
\* query_type, query_value and limit, and differs from what the first,
\* discarded structure would have sent.
C5_SearchUsesRetried ==
  \A r \in Reqs :
    (RetrySucceeded(r) /\ pc[r] # "search")
      => /\ NumCalls(r, "search") = 1
         /\ LET retried == SecondGen(r).outcome.val
                first == FirstGen(r).outcome.val
                arg == SearchCall(r).arg
            IN /\ retried.val["query_type"] \in DOMAIN arg
               /\ arg[retried.val["query_type"]] = retried.val["query_value"]
               /\ Get(retried, "limit", W("3")) \in DOMAIN arg
               /\ first.kind = "dict" => arg # SearchParams(first)

C5_Witness ==
  \E r \in Reqs :
    /\ RetrySucceeded(r)
    /\ NumCalls(r, "search") = 1
    /\ FirstGen(r).outcome.val.kind = "dict"
    /\ "query_value" \in DOMAIN FirstGen(r).outcome.val.val

C6_WitnessNoRetry ==
  \E r \in Reqs :
    /\ NumCalls(r, "generate") = 1
    /\ pc[r] = "search"
    /\ FirstGen(r).outcome.val.kind = "dict"
    /\ "limit" \notin DOMAIN FirstGen(r).outcome.val.val

SearchFailed(r) == NumCalls(r, "search") >= 1 /\ ~SearchCall(r).outcome.ok

\* C7: a failed search call ends the request with 500 and the message
\* 'Open Library API failed: <cause>'; refinement is never invoked.
C7_SearchFailure ==
  \A r \in Reqs :
    SearchFailed(r)
      => /\ pc[r] = "done"
         /\ response[r].status = 500
         /\ ErrorIs(response[r], SearchPrefix, SearchCall(r).outcome.cause)
         /\ NumCalls(r, "refine") = 0
         /\ NumCalls(r, "search") = 1

C7_Witness == \E r \in Reqs : SearchFailed(r) /\ pc[r] = "done"

RefineFailed(r) == NumCalls(r, "refine") >= 1 /\ ~RefineCall(r).outcome.ok

\* C8: a refinement call that fails at call time is answered 500 with the
\* message 'Refinement failed: <cause>', and nothing is streamed.
C8_RefinementFailure ==
  \A r \in Reqs :
    RefineFailed(r)
      => /\ pc[r] = "done"
         /\ response[r].status = 500
         /\ ErrorIs(response[r], RefinementPrefix, RefineCall(r).outcome.cause)
         /\ response[r].chunks = <<>>
         /\ upstream[r] = <<>>

C8_Witness == \E r \in Reqs : RefineFailed(r) /\ pc[r] = "done"

\* C9: the search request carries the parameter named by query_type with
\* value query_value, and the parameter named 'limit' with the query's limit
\* (default "3").
C9_SearchParameters ==
  \A r \in Reqs :
    NumCalls(r, "search") >= 1
      => LET qc == query_config[r]
             arg == SearchCall(r).arg
         IN /\ Get(qc, "query_type", W("q")) \in DOMAIN arg
            /\ arg[Get(qc, "query_type", W("q"))] = Get(qc, "query_value", Str(<<>>))
            /\ W("limit") \in DOMAIN arg
            /\ arg[W("limit")] = Get(qc, "limit", W("3"))

Streams(r) == response[r].content_type = "text/plain"

\* C10 as stated: the streamed body is every upstream line, in order, each
\* followed by one newline.
C10_EveryLineForwarded ==
  \A r \in Reqs :
    Streams(r)
      => response[r].chunks
           = [i \in DOMAIN upstream[r] |-> decode(upstream[r][i]) \o <<"\n">>]

\* the non-empty lines up to the first one that is not valid UTF-8
RECURSIVE Forwardable(_)
Forwardable(ls) ==
  IF ls = <<>> THEN <<>>
  ELSE IF Head(ls) = <<>> THEN Forwardable(Tail(ls))
  ELSE IF \E i \in DOMAIN Head(ls) : Head(ls)[i] >= 128 THEN <<>>
  ELSE <<Head(ls)>> \o Forwardable(Tail(ls))

\* C10 amended: the streamed body is the non-empty upstream lines, in order,
\* each followed by one newline, up to the first line that is not valid UTF-8.
C10_NonEmptyLinesForwarded ==
  \A r \in Reqs :
    Streams(r)
      => LET kept == Forwardable(upstream[r]) IN
           /\ Len(response[r].chunks) = Len(kept)
           /\ \A i \in DOMAIN kept :
                /\ Len(response[r].chunks[i]) = Len(kept[i]) + 1
                /\ \A j \in DOMAIN kept[i] : response[r].chunks[i][j] = Chr(kept[i][j])
                /\ response[r].chunks[i][Len(kept[i]) + 1] = "\n"

C10_Witness ==
  \E r \in Reqs :
    /\ Streams(r)
    /\ pc[r] = "done"
    /\ Len(upstream[r]) = 2
    /\ upstream[r][1] = <<>>
    /\ upstream[r][2] = <<104, 105>>

\* the bullets of a refinement prompt: the tokens between the introduction
\* and the closing instruction, cut at the newlines
PromptDetails(p) ==
  LET start == CHOOSE k \in DOMAIN p : p[k] = "'. Based on the following books:\n"
  IN SubSeq(p, start + 1, Len(p) - 2)

RECURSIVE SplitLines(_)
SplitLines(toks) ==
  IF toks = <<>> THEN <<>>
  ELSE IF \E k \in DOMAIN toks : toks[k] = "\n"
    THEN LET k == CHOOSE j \in DOMAIN toks :
                    toks[j] = "\n" /\ \A i \in 1..(j - 1) : toks[i] # "\n"
         IN <<SubSeq(toks, 1, k - 1)>> \o SplitLines(SubSeq(toks, k + 1, Len(toks)))
  ELSE <<toks>>

\* the bullet a document should give: its title or 'Unknown Title', then its
\* authors separated by commas, or 'Unknown Author'
ExpectedBullet(doc) ==
  LET title == IF "title" \in DOMAIN doc.val THEN doc.val["title"].val
               ELSE <<"Unknown Title">>
      names == IF "author_name" \in DOMAIN doc.val THEN doc.val["author_name"].val
               ELSE <<W("Unknown Author")>>
  IN <<"* '">> \o title \o <<"' by ">>
       \o (IF Len(names) = 1 THEN names[1].val
           ELSE names[1].val \o <<", ">> \o names[2].val)

Docs(r) == IF "docs" \in DOMAIN books_data[r].val THEN books_data[r].val["docs"].val ELSE <<>>

\* C11: the refinement prompt has one bullet for each of the first min(n, 3)
\* documents, in result order, with 'Unknown Title' / 'Unknown Author' for a
\* missing title / author_name, and nothing from a later document.
C11_PromptBullets ==
  \A r \in Reqs :
    NumCalls(r, "refine") >= 1
      => LET bullets == SplitLines(PromptDetails(RefineCall(r).arg.prompt))
             docs == Docs(r)
         IN /\ Len(bullets) = (IF Len(docs) < 3 THEN Len(docs) ELSE 3)
            /\ \A i \in DOMAIN bullets : bullets[i] = ExpectedBullet(docs[i])
            /\ \A i \in DOMAIN docs :
                 i > 3 => ToString(i) \notin Range(RefineCall(r).arg.prompt)

C11_Witness ==
  \E r \in Reqs :
    /\ NumCalls(r, "refine") >= 1
    /\ Len(Docs(r)) = 4
    /\ Docs(r)[1] = PartialBook(1)
    /\ Docs(r)[2] = PartialBook(2)
    /\ Docs(r)[3] = PartialBook(3)
    /\ Docs(r)[4] = Book(4)

(* --------------- validate_query_config as a pure function -------------- *)
ValidateChoices ==
  [ query_type : {PyNone, W("author")},
    query_value : {PyNone, W("dune")},
    limit : {PyNone, W("3"), W("5"), PyNum(10)},
    error : {PyNone, W("oops")},
    page : {PyNone, PyNum(2)} ]

ValidateInputs ==
  { PyDict([k \in {x \in DOMAIN f : f[x] # PyNone} |-> f[k]]) : f \in ValidateChoices }

\* request 1 stands at line 32 with a generated structure in hand
InitValidate ==
  /\ \E qc \in ValidateInputs :
       /\ query_config = [r \in Reqs |-> IF r = 1 THEN qc ELSE PyNone]
       /\ calls = [r \in Reqs |->
                     IF r = 1
                       THEN << [svc |-> "moderation", arg |-> <<"dune">>,
                                outcome |-> Ok(PyBool(FALSE))],
                               [svc |-> "generate", arg |-> <<"dune">>, outcome |-> Ok(qc)] >>
                       ELSE <<>>]
  /\ pc = [r \in Reqs |-> IF r = 1 THEN "validate" ELSE "idle"]
  /\ data = [r \in Reqs |-> IF r = 1 THEN PyDict("query" :> W("dune")) ELSE PyNone]
  /\ user_query = [r \in Reqs |-> IF r = 1 THEN <<"dune">> ELSE <<>>]
  /\ books_data = [r \in Reqs |-> PyNone]
  /\ response = [r \in Reqs |-> NoResponse]
  /\ upstream = [r \in Reqs |-> <<>>]
  /\ exc = [r \in Reqs |-> ""]

\* search_books, line 32: the verdict of validate_query_config decides
\* between the retry and the search
Validate(r) ==
  /\ pc[r] = "validate"
  /\ pc' = [pc EXCEPT ![r] =
              IF validate_query_config(query_config[r]) THEN "search" ELSE "retry"]
  /\ UNCHANGED <<data, user_query, query_config, books_data, calls, response, upstream, exc>>

NextValidate == \E r \in {1} : Validate(r)

SpecValidate == InitValidate /\ [][NextValidate]_vars

\* C12: validate_query_config is true exactly when query_type and query_value
\* are both keys of the structure, whatever limit or any other key is.
C12_ValidateIffBothKeys ==
  \A r \in Reqs :
    pc[r] \in {"search", "retry"}
      => (pc[r] = "search"
            <=> ("query_type" \in DOMAIN query_config[r].val
                 /\ "query_value" \in DOMAIN query_config[r].val))

C12_Witness ==
  \E r \in Reqs :
    /\ pc[r] = "search"
    /\ "limit" \notin DOMAIN query_config[r].val
    /\ "error" \in DOMAIN query_config[r].val

\* the answer to an exception is the generic 500 body and not its text
GenericAnswer(r) ==
  /\ pc[r] = "done"
  /\ response[r].status = 500
  /\ response[r].content_type = "application/json"
  /\ response[r].json = PyDict("error" :> Str(<<"An unexpected error occurred.">>))
  /\ exc[r] \notin Range(response[r].json.val["error"].val)
  /\ response[r].chunks = <<>>

\* C13: an exception that reaches the handler's except clause ends the
\* request with 500 and exactly the generic body, never the exception's text,
\* and no collaborator is called afterwards.
C13_UnexpectedIsGeneric ==
  /\ [](\A r \in Reqs : exc[r] # "" => GenericAnswer(r))
  /\ [][\A r \in Reqs : exc[r] # "" => calls'[r] = calls[r]]_vars

C13_Witness ==
  \E r \in Reqs : exc[r] = "name 'logger' is not defined" /\ NumCalls(r, "generate") = 2

C13_WitnessInput ==
  \E r \in Reqs : exc[r] = "argument of type 'int' is not iterable" /\ calls[r] = <<>>

(* ------------------------- concurrent requests ------------------------ *)
\* inputs of the concurrent specification: one case of each kind
ConcBodies == { PyDict("query" :> Str(<<" ", "dune", " ">>)), PyDict("query" :> Str(<<" ">>)) }

ConcGenOutcomes ==
  { Fail("Connection refused"),
    Ok(PyDict("query_type" :> W("author") @@ "query_value" :> W("dune"))),
    Ok(PyDict("limit" :> W("5"))) }

ConcSearchOutcomes == { Fail("Connection refused"), Ok(PyDict("docs" :> PyList(<<Book(1)>>))) }

ConcRefineOutcomes == { Fail("Connection refused"), Ok(PyNone) }

ConcLines == { <<98>> }

\* one step of request r; every request runs the same handler, and the
\* steps of different requests interleave freely
Step(r) ==
  \/ \E body \in ConcBodies : Receive(r, body)
  \/ \E flagged \in BOOLEAN : Moderate(r, flagged)
  \/ \E outcome \in ConcGenOutcomes : Generate(r, outcome)
  \/ \E outcome \in ConcGenOutcomes : Retry(r, outcome)
  \/ \E outcome \in ConcSearchOutcomes : Search(r, outcome)
  \/ \E outcome \in ConcRefineOutcomes : Refine(r, outcome)
  \/ \E chunk \in ConcLines : StreamLine(r, chunk)
  \/ StreamEnd(r)
  \/ StreamFail(r)

NextConc == \E r \in Reqs : Step(r)

SpecConc == Init /\ [][NextConc]_vars

Terminal(r) == pc[r] \in {"done", "aborted"}

\* the step leaves request q as it was
Untouched(q) ==
  /\ pc'[q] = pc[q]
  /\ data'[q] = data[q]
  /\ user_query'[q] = user_query[q]
  /\ query_config'[q] = query_config[q]
  /\ books_data'[q] = books_data[q]
  /\ calls'[q] = calls[q]
  /\ response'[q] = response[q]
  /\ upstream'[q] = upstream[q]
  /\ exc'[q] = exc[q]

\* the first n calls of r and q had the same outcomes
SameOutcomes(r, q, n) ==
  \A i \in 1..n : calls[r][i].svc = calls[q][i].svc
                    /\ calls[r][i].outcome = calls[q][i].outcome

\* requests with the same body make the same next call as long as their
\* earlier calls had the same outcomes, and end with the same response
OwnInputsDecide(r, q) ==
  data[r] = data[q] /\ pc[r] # "idle" /\ pc[q] # "idle"
    => /\ \A i \in DOMAIN calls[r] \cap DOMAIN calls[q] :
            SameOutcomes(r, q, i - 1)
              => /\ calls[r][i].svc = calls[q][i].svc
                 /\ calls[r][i].arg = calls[q][i].arg
       /\ ( /\ Terminal(r) /\ Terminal(q)
            /\ Len(calls[r]) = Len(calls[q])
            /\ SameOutcomes(r, q, Len(calls[r]))
            /\ upstream[r] = upstream[q] )
            => response[r] = response[q]

\* C14: under every interleaving, a step of one request changes no state of
\* another request, and a request's calls and response are decided by its own
\* body, the outcomes of its own calls and its own upstream lines.
C14_RequestsIndependent ==
  /\ [](\A r, q \in Reqs : OwnInputsDecide(r, q))
  /\ [][\E r \in Reqs : \A q \in Reqs \ {r} : Untouched(q)]_vars

C14_Witness ==
  /\ pc[1] = "streaming" /\ Len(upstream[1]) = 1
  /\ pc[2] = "search" /\ NumCalls(2, "generate") = 2

Rank(svc) ==
  CASE svc = "moderation" -> 1 [] svc = "generate" -> 2
    [] svc = "search" -> 3 [] svc = "refine" -> 4

LastGen(r) == CallsOf(r, "generate")[NumCalls(r, "generate")]

\* the calls of request r so far respect the order of the steps
InStepOrder(r) ==
  /\ \A i, j \in DOMAIN calls[r] : i < j => Rank(calls[r][i].svc) <= Rank(calls[r][j].svc)
  /\ NumCalls(r, "moderation") <= 1
  /\ NumCalls(r, "generate") <= 2
  /\ NumCalls(r, "search") <= 1
  /\ NumCalls(r, "refine") <= 1
  /\ calls[r] # <<>> => calls[r][1].svc = "moderation" /\ ~QueryMissing(data[r])
  /\ NumCalls(r, "generate") >= 1 => ~Flagged(r)
  /\ NumCalls(r, "search") = 1
       => /\ NumCalls(r, "generate") >= 1
          /\ LastGen(r).outcome.ok
          /\ ~IsErrorDict(LastGen(r).outcome.val)
  /\ NumCalls(r, "refine") = 1
       => /\ NumCalls(r, "search") = 1
          /\ SearchCall(r).outcome.ok
          /\ ~IsErrorDict(SearchCall(r).outcome.val)

\* C15: the calls of a request come in the order moderation, generation (one
\* or two), search, refinement; search and refinement happen at most once and
\* only after a non-error result of the step before; after an error response
\* no collaborator is called.
C15_StepOrder ==
  /\ [](\A r \in Reqs : InStepOrder(r))
  /\ [][\A r \in Reqs : response[r].status \in {400, 500} => calls'[r] = calls[r]]_vars

C15_Witness ==
  \E r \in Reqs :
    /\ Len(calls[r]) = 5
    /\ calls[r][3].svc = "generate"
    /\ calls[r][5].svc = "refine"

BothLacking(r) ==
  /\ NumCalls(r, "generate") = 2
  /\ FirstGen(r).outcome.ok
  /\ NonErrorLacking(FirstGen(r).outcome.val)
  /\ SecondGen(r).outcome.ok
  /\ NonErrorLacking(SecondGen(r).outcome.val)

\* C16: when the first and the retried result are both non-error structures
\* lacking a required key, the request does not end at the generation stage
\* and the search is invoked exactly once with the retried structure, "q"
\* standing for a missing query_type, the empty string for a missing
\* query_value and "3" for a missing limit.
C16_SearchAfterTwoInvalid ==
  \A r \in Reqs :
    (BothLacking(r) /\ pc[r] # "search")
      => /\ NumCalls(r, "search") = 1
         /\ LET retried == SecondGen(r).outcome.val
                arg == SearchCall(r).arg
                qt == IF "query_type" \in DOMAIN retried.val
                        THEN retried.val["query_type"] ELSE W("q")
                qv == IF "query_value" \in DOMAIN retried.val
                        THEN retried.val["query_value"] ELSE Str(<<>>)
                lim == IF "limit" \in DOMAIN retried.val
                         THEN retried.val["limit"] ELSE W("3")
            IN /\ qt \in DOMAIN arg
               /\ arg[qt] = qv
               /\ \E k \in DOMAIN arg : k = lim \/ arg[k] = lim

IsPrefix(a, b) == Len(a) <= Len(b) /\ \A i \in DOMAIN a : a[i] = b[i]

\* C17: an error response exists only where nothing was streamed; once a line
\* has been sent, whatever happens (a broken upstream included) leaves the
\* sent lines in place, the status 200 and no error payload.
C17_NoErrorAfterFirstLine ==
  /\ [](\A r \in Reqs :
          /\ response[r].status = 500 => response[r].chunks = <<>> /\ upstream[r] = <<>>
          /\ pc[r] = "aborted" => response[r].status = 200 /\ response[r].json = PyNone)
  /\ [][\A r \in Reqs :
          Len(response[r].chunks) >= 1
            => /\ IsPrefix(response[r].chunks, response'[r].chunks)
               /\ response'[r].status = 200
               /\ response'[r].json = PyNone]_vars

C17_Witness ==
  \E r \in Reqs :
    /\ pc[r] = "aborted"
    /\ upstream[r] = << <<98>> >>
    /\ Len(response[r].chunks) = 1

LastCall(r) == calls[r][Len(calls[r])]

\* C18: a request that ends with 500 right after a generation or search call
\* (the catch-all of lines 51-52 aside) does so only because that call failed,
\* whatever the returned structure contains.
C18_SuccessNeverReportedAsFailure ==
  \A r \in Reqs :
    ( /\ response[r].status = 500
      /\ exc[r] = ""
      /\ calls[r] # <<>>
      /\ LastCall(r).svc \in {"generate", "search"} )
      => ~LastCall(r).outcome.ok

(* ------------------------------ progress ------------------------------ *)
LiveSearchOutcomes ==
  {Fail(c) : c \in Causes}
  \cup { Ok(PyDict("docs" :> PyList(<<Book(1)>>))),
         Ok(PyDict("error" :> W("rate limited"))), Ok(PyList(<<>>)) }

\* one step of the request, over every body, generation result, refinement
\* outcome and upstream line of the model
StepLive(r) ==
  \/ \E body \in Bodies : Receive(r, body)
  \/ \E flagged \in BOOLEAN : Moderate(r, flagged)
  \/ \E outcome \in GenOutcomes : Generate(r, outcome)
  \/ \E outcome \in GenOutcomes : Retry(r, outcome)
  \/ \E outcome \in LiveSearchOutcomes : Search(r, outcome)
  \/ \E outcome \in RefineOutcomes : Refine(r, outcome)
  \/ \E chunk \in Lines : StreamLine(r, chunk)
  \/ StreamEnd(r)
  \/ StreamFail(r)

NextLive == \E r \in {1} : StepLive(r)

\* every outbound call returns or fails and the upstream stream ends: the
\* request keeps taking its next step
SpecLive == Init /\ [][NextLive]_vars /\ WF_vars(NextLive)

NetworkCalls(r) == NumCalls(r, "generate") + NumCalls(r, "search") + NumCalls(r, "refine")

\* C19: every request received reaches a terminal outcome, keeps that one
\* outcome, and makes at most four outbound network calls: two generation
\* calls, one search call, one refinement call.
C19_Terminates ==
  /\ \A r \in Reqs : (pc[r] # "idle") ~> Terminal(r)
  /\ [](\A r \in Reqs :
          /\ NetworkCalls(r) <= 4
          /\ NumCalls(r, "generate") <= 2
          /\ NumCalls(r, "search") <= 1
          /\ NumCalls(r, "refine") <= 1
          /\ Terminal(r) => response[r].status \in {200, 400, 500})
  /\ [][\A r \in Reqs :
          Terminal(r) => /\ pc'[r] = pc[r]
                         /\ response'[r] = response[r]
                         /\ calls'[r] = calls[r]]_vars

C19_Witness ==
  \E r \in Reqs : pc[r] = "done" /\ NetworkCalls(r) = 4 /\ response[r].status = 200
====
